---------------------------- MODULE Spec2Model ----------------------------
(***************************************************************************)
(* Model of main.c of the DMA descriptor-chain example: main() running on  *)
(* the CPU, the DMA controller (DMAC) executing the PING/PONG descriptors  *)
(* of channel USER_DMA_CHANNEL, and the UART transmitter.  The CPU, the    *)
(* DMAC and the UART run concurrently; every step of each is one action.   *)
(***************************************************************************)
EXTENDS Integers, Sequences, FiniteSets, TLC

VARIABLES
    pc,          \* position of main(): the source line about to execute
    result,      \* main's local `result` (cy_rslt_t)
    i_u8,        \* the uint8_t loop counter i of the PING dump loops
    i_u32,       \* the uint32_t loop counter i of the PONG dump loops, <<hi16, lo16>>
    locals,      \* main's local arrays srcdata1, dstdata1, srcdata2, dstdata2
    mem,         \* the four global regions g_region1Src .. g_region2Dst
    chanInit,    \* channel configuration registers written by Cy_DMAC_Channel_Init
    chEnabled,   \* channel enable bit
    dmacEnabled, \* DMA controller enable bit
    descr,       \* the PING and PONG descriptors: valid bit, src, dst, response
    curDescr,    \* descriptor the channel executes next
    trigPending, \* a trigger pulse has reached the channel and is not yet served
    dmaActive,   \* the engine is in the middle of descriptor curDescr
    dmaIdx,      \* number of data elements of curDescr already moved
    uartEnabled, \* UART configured and enabled
    txBusy,      \* UART TX FIFO or shifter not empty
    console,     \* everything written to the UART so far, in order
    calls,       \* history: how many times main made each DMAC and trigger call
    failed,      \* history: the calls that returned an error status
    idxLog       \* history: array indices used by each of the four dump loops

vars == <<pc, result, i_u8, i_u32, locals, mem, chanInit, chEnabled, dmacEnabled,
          descr, curDescr, trigPending, dmaActive, dmaIdx, uartEnabled, txBusy,
          console, calls, failed, idxLog>>

cpuVars  == <<pc, result, i_u8, i_u32, locals, calls, failed, idxLog>>
dmaVars  == <<chanInit, chEnabled, dmacEnabled, descr, curDescr, trigPending,
              dmaActive, dmaIdx>>
uartVars == <<uartEnabled, txBusy, console>>

-----------------------------------------------------------------------------
(* Program constants *)

DMAC_TRANSFER_SIZE == 16

\* Number of data elements the engine moves in one atomic step of the model.
DmaBurst == 8

\* "PSoC4_HVMS-DMADC" as character codes
RegionInit == <<80, 83, 111, 67, 52, 95, 72, 86, 77, 83, 45, 68, 77, 65, 68, 67>>

ZeroRegion == [k \in 1..DMAC_TRANSFER_SIZE |-> 0]

\* value of an array element that was never written
Undef == -1

UninitArray == [k \in 1..DMAC_TRANSFER_SIZE |-> Undef]

PING == "PING"
PONG == "PONG"
Descriptors == {PING, PONG}

g_region1Src == mem["g_region1Src"]
g_region1Dst == mem["g_region1Dst"]
g_region2Src == mem["g_region2Src"]
g_region2Dst == mem["g_region2Dst"]

srcdata1 == locals["srcdata1"]
dstdata1 == locals["dstdata1"]
srcdata2 == locals["srcdata2"]
dstdata2 == locals["dstdata2"]

-----------------------------------------------------------------------------
(* Fixed-width arithmetic *)

\* uint8_t increment
U8Inc(x) == (x + 1) % 256

\* A uint32_t is kept as <<high half, low half>>, each 16 bits wide.
U32(n) == <<0, n>>

U32Dec_saturating(x) ==
    IF x[2] > 0 THEN <<x[1], x[2] - 1>>
    ELSE IF x[1] > 0 THEN <<x[1] - 1, 65535>>
    ELSE <<0, 0>>

\* uint32_t decrement, modulo 2^32
U32Dec(x) ==
    IF x[2] > 0 THEN <<x[1], x[2] - 1>>
    ELSE <<(x[1] - 1) % 65536, 65535>>

\* x < n for a uint32_t x and a constant n < 2^16
U32Less(x, n) == x[1] = 0 /\ x[2] < n

\* The array index a uint32_t denotes; every value from 2^16 on lies outside
\* each array of the program and is reported as Undef.
U32Index(x) == IF x[1] = 0 THEN x[2] ELSE Undef

\* C array element k (0-based); an index outside the array reads nothing defined
ArrayRead(a, k) == IF k \in 0..(Len(a) - 1) THEN a[k + 1] ELSE Undef

\* C array store a[k] = v (0-based); a store outside the array leaves it alone
ArrayWrite(a, k, v) == IF k \in 0..(Len(a) - 1) THEN [a EXCEPT ![k + 1] = v] ELSE a

-----------------------------------------------------------------------------
(* Console *)

Str(s)  == [s |-> s, b |-> Undef]
Byte(b) == [s |-> "", b |-> b]

-----------------------------------------------------------------------------
Init ==
    /\ pc = "L102"
    /\ result = "UNSET"
    /\ i_u8 = 0
    /\ i_u32 = U32(0)
    /\ locals = [n \in {"srcdata1", "dstdata1", "srcdata2", "dstdata2"} |-> UninitArray]
    /\ mem = [g_region1Src |-> RegionInit, g_region1Dst |-> ZeroRegion,
              g_region2Src |-> RegionInit, g_region2Dst |-> ZeroRegion]
    /\ chanInit = FALSE
    /\ chEnabled = FALSE
    /\ dmacEnabled = FALSE
    /\ descr = [d \in Descriptors |->
                  [valid |-> FALSE, src |-> "NULL", dst |-> "NULL", response |-> "CY_DMAC_NO_ERROR"]]
    /\ curDescr = PING
    /\ trigPending = FALSE
    /\ dmaActive = FALSE
    /\ dmaIdx = 0
    /\ uartEnabled = FALSE
    /\ txBusy = FALSE
    /\ console = <<>>
    /\ calls = [Channel_Init |-> 0, Descriptor_Init_PING |-> 0, Descriptor_Init_PONG |-> 0,
              Channel_Enable |-> 0, Enable |-> 0, SwTrigger |-> 0]
    /\ failed = {}
    /\ idxLog = [l \in {"L152", "L162", "L173", "L183"} |-> <<>>]

-----------------------------------------------------------------------------
(* main(): straight-line start-up code, lines 101-144 *)

\* CY_RSLT_SUCCESS or an error code from the board support package
cybsp_init ==
    /\ pc = "L102"
    /\ \E r \in {"CY_RSLT_SUCCESS", "CY_RSLT_ERROR"} :
          /\ result' = r
          /\ failed' = IF r = "CY_RSLT_SUCCESS" THEN failed ELSE failed \cup {"cybsp_init"}
    /\ pc' = "L103"
    /\ UNCHANGED <<i_u8, i_u32, locals, calls, idxLog, mem, dmaVars, uartVars>>

\* if (result != CY_RSLT_SUCCESS) CY_ASSERT(0);  -- the assertion halts the CPU
CheckResult ==
    /\ pc = "L103"
    /\ pc' = IF result # "CY_RSLT_SUCCESS" THEN "L105" ELSE "L109"
    /\ UNCHANGED <<result, i_u8, i_u32, locals, failed, calls, idxLog, mem, dmaVars, uartVars>>

enable_irq ==
    /\ pc = "L109"
    /\ pc' = "L112"
    /\ UNCHANGED <<result, i_u8, i_u32, locals, failed, calls, idxLog, mem, dmaVars, uartVars>>

\* The status Cy_DMAC_Channel_Init returns is discarded; on failure the
\* channel registers are left as they were.
Cy_DMAC_Channel_Init ==
    /\ pc = "L112"
    /\ \E ok \in BOOLEAN :
          /\ chanInit' = (chanInit \/ ok)
          /\ curDescr' = IF ok THEN PING ELSE curDescr
          /\ failed' = IF ok THEN failed ELSE failed \cup {"Channel_Init"}
    /\ calls' = [calls EXCEPT !.Channel_Init = @ + 1]
    /\ pc' = "L115"
    /\ UNCHANGED <<result, i_u8, i_u32, locals, idxLog, mem, chEnabled, dmacEnabled,
                   descr, trigPending, dmaActive, dmaIdx, uartVars>>

DescrInitLine(d) == IF d = PING THEN "L115" ELSE "L120"
SetSrcLine(d)    == IF d = PING THEN "L116" ELSE "L121"
SetDstLine(d)    == IF d = PING THEN "L117" ELSE "L122"

\* The status Cy_DMAC_Descriptor_Init returns is discarded; on success the
\* descriptor control word is written and the descriptor is validated.
Cy_DMAC_Descriptor_Init(d) ==
    /\ pc = DescrInitLine(d)
    /\ \E ok \in BOOLEAN :
          /\ descr' = IF ok THEN [descr EXCEPT ![d].valid = TRUE,
                                               ![d].response = "CY_DMAC_NO_ERROR"]
                      ELSE descr
          /\ failed' = IF ok THEN failed ELSE failed \cup {"Descriptor_Init_" \o d}
    /\ calls' = [calls EXCEPT !["Descriptor_Init_" \o d] = @ + 1]
    /\ pc' = SetSrcLine(d)
    /\ UNCHANGED <<result, i_u8, i_u32, locals, idxLog, mem, chanInit, chEnabled,
                   dmacEnabled, curDescr, trigPending, dmaActive, dmaIdx, uartVars>>

DescrAddr_swapped(d) ==
    IF d = PING THEN [src |-> "g_region1Src", dst |-> "g_region1Dst"]
    ELSE [src |-> "g_region2Dst", dst |-> "g_region2Src"]

DescrAddr_pingToRegion2(d) ==
    IF d = PING THEN [src |-> "g_region1Src", dst |-> "g_region2Dst"]
    ELSE [src |-> "g_region2Src", dst |-> "g_region2Dst"]

\* The region each descriptor is given as source and as destination
DescrAddr(d) ==
    IF d = PING THEN [src |-> "g_region1Src", dst |-> "g_region1Dst"]
    ELSE [src |-> "g_region2Src", dst |-> "g_region2Dst"]

Cy_DMAC_Descriptor_SetSrcAddress(d) ==
    /\ pc = SetSrcLine(d)
    /\ descr' = [descr EXCEPT ![d].src = DescrAddr(d).src]
    /\ pc' = SetDstLine(d)
    /\ UNCHANGED <<result, i_u8, i_u32, locals, failed, calls, idxLog, mem, chanInit, chEnabled,
                   dmacEnabled, curDescr, trigPending, dmaActive, dmaIdx, uartVars>>

Cy_DMAC_Descriptor_SetDstAddress(d) ==
    /\ pc = SetDstLine(d)
    /\ descr' = [descr EXCEPT ![d].dst = DescrAddr(d).dst]
    /\ pc' = IF d = PING THEN "L120" ELSE "L125"
    /\ UNCHANGED <<result, i_u8, i_u32, locals, failed, calls, idxLog, mem, chanInit, chEnabled,
                   dmacEnabled, curDescr, trigPending, dmaActive, dmaIdx, uartVars>>

Cy_DMAC_Channel_Enable ==
    /\ pc = "L125"
    /\ chEnabled' = TRUE
    /\ calls' = [calls EXCEPT !.Channel_Enable = @ + 1]
    /\ pc' = "L128"
    /\ UNCHANGED <<result, i_u8, i_u32, locals, failed, idxLog, mem, chanInit, dmacEnabled,
                   descr, curDescr, trigPending, dmaActive, dmaIdx, uartVars>>

Cy_DMAC_Enable_omitted ==
    /\ pc = "L128"
    /\ pc' = "L131"
    /\ UNCHANGED <<result, i_u8, i_u32, locals, failed, calls, idxLog, mem, dmaVars, uartVars>>

Cy_DMAC_Enable ==
    /\ pc = "L128"
    /\ dmacEnabled' = TRUE
    /\ calls' = [calls EXCEPT !.Enable = @ + 1]
    /\ pc' = "L131"
    /\ UNCHANGED <<result, i_u8, i_u32, locals, failed, idxLog, mem, chanInit, chEnabled,
                   descr, curDescr, trigPending, dmaActive, dmaIdx, uartVars>>

Cy_SCB_UART_Init ==
    /\ pc = "L131"
    /\ pc' = "L132"
    /\ UNCHANGED <<result, i_u8, i_u32, locals, failed, calls, idxLog, mem, dmaVars, uartVars>>

Cy_SCB_UART_Enable ==
    /\ pc = "L132"
    /\ uartEnabled' = TRUE
    /\ pc' = "L134"
    /\ UNCHANGED <<result, i_u8, i_u32, locals, failed, calls, idxLog, mem, dmaVars, txBusy, console>>

\* Every Cy_SCB_UART_PutString call of main: its line, its text, the line after it
PutStringCalls ==
    [ L134 |-> [text |-> "<ESC>[2J<ESC>[;H", next |-> "L135"],
      L135 |-> [text |-> "************************************************************\r\n",
                next |-> "L136"],
      L136 |-> [text |-> "DMA Data Transfer with Descriptor Chain \r\n", next |-> "L137"],
      L137 |-> [text |-> "************************************************************\r\n\n",
                next |-> "L144"],
      L150 |-> [text |-> "PING source = ", next |-> "L152"],
      L159 |-> [text |-> "\r\n", next |-> "L160"],
      L160 |-> [text |-> "PING destination = ", next |-> "L162"],
      L168 |-> [text |-> "\r\n", next |-> "L171"],
      L171 |-> [text |-> "PONG source = ", next |-> "L173"],
      L180 |-> [text |-> "\r\n", next |-> "L181"],
      L181 |-> [text |-> "PONG destination = ", next |-> "L183"],
      L190 |-> [text |-> "\r\n", next |-> "L193"],
      L193 |-> [text |-> "- DMA transfer is completed. \r\n", next |-> "L195"] ]

\* Blocking write of a whole string into the transmitter
Cy_SCB_UART_PutString(l) ==
    /\ pc = l
    /\ uartEnabled
    /\ console' = Append(console, Str(PutStringCalls[l].text))
    /\ txBusy' = TRUE
    /\ pc' = PutStringCalls[l].next
    /\ UNCHANGED <<result, i_u8, i_u32, locals, failed, calls, idxLog, mem, dmaVars, uartEnabled>>

Cy_TrigMux_SwTrigger_omitted ==
    /\ pc = "L144"
    /\ pc' = "L147"
    /\ UNCHANGED <<result, i_u8, i_u32, locals, failed, calls, idxLog, mem, dmaVars, uartVars>>

\* The status Cy_TrigMux_SwTrigger returns is discarded.  An accepted trigger
\* pulse reaches the channel when the channel and the controller are enabled.
Cy_TrigMux_SwTrigger ==
    /\ pc = "L144"
    /\ \E ok \in BOOLEAN :
          /\ trigPending' = (trigPending \/ (ok /\ chEnabled /\ dmacEnabled))
          /\ failed' = IF ok THEN failed ELSE failed \cup {"SwTrigger"}
    /\ calls' = [calls EXCEPT !.SwTrigger = @ + 1]
    /\ pc' = "L147"
    /\ UNCHANGED <<result, i_u8, i_u32, locals, idxLog, mem, chanInit, chEnabled,
                   dmacEnabled, descr, curDescr, dmaActive, dmaIdx, uartVars>>

\* The condition of the wait loop: the loop body runs again while this holds
WaitLoopCondition(response) == "CY_DMAC_DONE" = response

Cy_DMAC_Descriptor_GetResponse(d) == descr[d].response

\* while (CY_DMAC_DONE == Cy_DMAC_Descriptor_GetResponse(.., PONG));
WaitTransfer ==
    /\ pc = "L147"
    /\ pc' = IF WaitLoopCondition(Cy_DMAC_Descriptor_GetResponse(PONG)) THEN "L147" ELSE "L150"
    /\ UNCHANGED <<result, i_u8, i_u32, locals, failed, calls, idxLog, mem, dmaVars, uartVars>>

-----------------------------------------------------------------------------
(* main(): the four dump loops, lines 152-188 *)

\* Each loop: the type of its counter, the region it reads, the local array
\* it fills, and the line that follows it.  The PING loops count 0 upwards
\* in a uint8_t, the PONG loops count 15 downwards in a uint32_t.
DumpLoops ==
    [ L152 |-> [counter |-> "uint8_t",  region |-> "g_region1Src", array |-> "srcdata1",
                next |-> "L159"],
      L162 |-> [counter |-> "uint8_t",  region |-> "g_region1Dst", array |-> "dstdata1",
                next |-> "L168"],
      L173 |-> [counter |-> "uint32_t", region |-> "g_region2Src", array |-> "srcdata2",
                next |-> "L180"],
      L183 |-> [counter |-> "uint32_t", region |-> "g_region2Dst", array |-> "dstdata2",
                next |-> "L190"] ]

LoopLines == DOMAIN DumpLoops

\* position inside loop l: its test, its three body statements, its increment
At(l, part) == l \o "_" \o part

\* The value of i used as array index in loop l
LoopIndex(l) == IF DumpLoops[l].counter = "uint8_t" THEN i_u8 ELSE U32Index(i_u32)

\* for (uint8_t i = 0; ...)  /  for (uint32_t i = 15; ...)
ForInit(l) ==
    /\ pc = l
    /\ IF DumpLoops[l].counter = "uint8_t"
         THEN i_u8' = 0 /\ UNCHANGED i_u32
         ELSE i_u32' = U32(15) /\ UNCHANGED i_u8
    /\ pc' = At(l, "test")
    /\ UNCHANGED <<result, locals, failed, calls, idxLog, mem, dmaVars, uartVars>>

\* i < DMAC_TRANSFER_SIZE
ForTest(l) ==
    /\ pc = At(l, "test")
    /\ LET again == IF DumpLoops[l].counter = "uint8_t"
                      THEN i_u8 < DMAC_TRANSFER_SIZE
                      ELSE U32Less(i_u32, DMAC_TRANSFER_SIZE)
       IN  pc' = IF again THEN At(l, "read") ELSE DumpLoops[l].next
    /\ UNCHANGED <<result, i_u8, i_u32, locals, failed, calls, idxLog, mem, dmaVars, uartVars>>

\* srcdata1[i] = g_region1Src[i];  and the like
ReadElement(l) ==
    /\ pc = At(l, "read")
    /\ LET k == LoopIndex(l)
           a == DumpLoops[l].array
       IN  /\ locals' = [locals EXCEPT ![a] = ArrayWrite(@, k, ArrayRead(mem[DumpLoops[l].region], k))]
           /\ idxLog' = [idxLog EXCEPT ![l] = Append(@, k)]
    /\ pc' = At(l, "wait")
    /\ UNCHANGED <<result, i_u8, i_u32, calls, failed, mem, dmaVars, uartVars>>

Cy_SCB_UART_IsTxComplete == ~txBusy

\* while (!Cy_SCB_UART_IsTxComplete(UART_HW));
WaitTxComplete(l) ==
    /\ pc = At(l, "wait")
    /\ pc' = IF ~Cy_SCB_UART_IsTxComplete THEN At(l, "wait") ELSE At(l, "put")
    /\ UNCHANGED <<result, i_u8, i_u32, locals, failed, calls, idxLog, mem, dmaVars, uartVars>>

\* Cy_SCB_UART_Put(UART_HW, srcdata1[i]);  and the like
Cy_SCB_UART_Put(l) ==
    /\ pc = At(l, "put")
    /\ uartEnabled
    /\ console' = Append(console, Byte(ArrayRead(locals[DumpLoops[l].array], LoopIndex(l))))
    /\ txBusy' = TRUE
    /\ pc' = At(l, "step")
    /\ UNCHANGED <<result, i_u8, i_u32, locals, failed, calls, idxLog, mem, dmaVars, uartEnabled>>

\* i++  /  i--
ForStep(l) ==
    /\ pc = At(l, "step")
    /\ IF DumpLoops[l].counter = "uint8_t"
         THEN i_u8' = U8Inc(i_u8) /\ UNCHANGED i_u32
         ELSE i_u32' = U32Dec(i_u32) /\ UNCHANGED i_u8
    /\ pc' = At(l, "test")
    /\ UNCHANGED <<result, locals, failed, calls, idxLog, mem, dmaVars, uartVars>>

\* for(;;) { }
IdleLoop ==
    /\ pc = "L195"
    /\ UNCHANGED vars

Main ==
    \/ cybsp_init
    \/ CheckResult
    \/ enable_irq
    \/ Cy_DMAC_Channel_Init
    \/ \E d \in Descriptors : Cy_DMAC_Descriptor_Init(d)
    \/ \E d \in Descriptors : Cy_DMAC_Descriptor_SetSrcAddress(d)
    \/ \E d \in Descriptors : Cy_DMAC_Descriptor_SetDstAddress(d)
    \/ Cy_DMAC_Channel_Enable
    \/ Cy_DMAC_Enable
    \/ Cy_SCB_UART_Init
    \/ Cy_SCB_UART_Enable
    \/ \E l \in DOMAIN PutStringCalls : Cy_SCB_UART_PutString(l)
    \/ Cy_TrigMux_SwTrigger
    \/ WaitTransfer
    \/ \E l \in LoopLines : ForInit(l)
    \/ \E l \in LoopLines : ForTest(l)
    \/ \E l \in LoopLines : ReadElement(l)
    \/ \E l \in LoopLines : WaitTxComplete(l)
    \/ \E l \in LoopLines : Cy_SCB_UART_Put(l)
    \/ \E l \in LoopLines : ForStep(l)
    \/ IdleLoop

-----------------------------------------------------------------------------
(* The DMA controller *)

Min(a, b) == IF a < b THEN a ELSE b

\* A trigger is served: the engine opens the current descriptor.  An invalid
\* descriptor, or one without an address, ends the transfer with an error
\* response and disables the channel.
DmaStart ==
    /\ trigPending /\ chEnabled /\ dmacEnabled /\ ~dmaActive
    /\ trigPending' = FALSE
    /\ dmaIdx' = 0
    /\ LET d == curDescr
           err == IF ~descr[d].valid THEN "CY_DMAC_INVALID_DESCR"
                  ELSE IF descr[d].src = "NULL" THEN "CY_DMAC_SRC_BUS_ERROR"
                  ELSE IF descr[d].dst = "NULL" THEN "CY_DMAC_DST_BUS_ERROR"
                  ELSE "none"
       IN  IF err = "none"
             THEN dmaActive' = TRUE /\ UNCHANGED <<descr, chEnabled>>
             ELSE /\ dmaActive' = FALSE
                  /\ descr' = [descr EXCEPT ![d].response = err]
                  /\ chEnabled' = FALSE
    /\ UNCHANGED <<cpuVars, mem, chanInit, dmacEnabled, curDescr, uartVars>>

\* The engine moves the next data elements of the current descriptor from
\* its source region to its destination region.
DmaTransfer ==
    /\ dmaActive /\ dmaIdx < DMAC_TRANSFER_SIZE
    /\ LET d == curDescr
           n == Min(DmaBurst, DMAC_TRANSFER_SIZE - dmaIdx)
           src == mem[descr[d].src]
       IN  /\ mem' = [mem EXCEPT ![descr[d].dst] =
                        [k \in 1..DMAC_TRANSFER_SIZE |->
                           IF k \in (dmaIdx + 1)..(dmaIdx + n) THEN src[k] ELSE @[k]]]
           /\ dmaIdx' = dmaIdx + n
    /\ UNCHANGED <<cpuVars, chanInit, chEnabled, dmacEnabled, descr, curDescr,
                   trigPending, dmaActive, uartVars>>

\* PING is complete: its response becomes Done and the chain moves on to
\* PONG without waiting for another trigger.
DmaChainToPong ==
    /\ dmaActive /\ dmaIdx = DMAC_TRANSFER_SIZE /\ curDescr = PING
    /\ curDescr' = PONG
    /\ dmaIdx' = 0
    /\ LET err == IF ~descr[PONG].valid THEN "CY_DMAC_INVALID_DESCR"
                  ELSE IF descr[PONG].src = "NULL" THEN "CY_DMAC_SRC_BUS_ERROR"
                  ELSE IF descr[PONG].dst = "NULL" THEN "CY_DMAC_DST_BUS_ERROR"
                  ELSE "none"
       IN  IF err = "none"
             THEN /\ descr' = [descr EXCEPT ![PING].response = "CY_DMAC_DONE"]
                  /\ UNCHANGED <<dmaActive, chEnabled>>
             ELSE /\ descr' = [descr EXCEPT ![PING].response = "CY_DMAC_DONE",
                                            ![PONG].response = err]
                  /\ dmaActive' = FALSE
                  /\ chEnabled' = FALSE
    /\ UNCHANGED <<cpuVars, mem, chanInit, dmacEnabled, trigPending, uartVars>>

\* PONG is complete: its response becomes Done and the chain ends.
DmaChainEnd ==
    /\ dmaActive /\ dmaIdx = DMAC_TRANSFER_SIZE /\ curDescr = PONG
    /\ descr' = [descr EXCEPT ![PONG].response = "CY_DMAC_DONE"]
    /\ dmaActive' = FALSE
    /\ UNCHANGED <<cpuVars, mem, chanInit, chEnabled, dmacEnabled, curDescr,
                   trigPending, dmaIdx, uartVars>>

Dma == DmaStart \/ DmaTransfer \/ DmaChainToPong \/ DmaChainEnd

-----------------------------------------------------------------------------
(* The UART transmitter *)

\* The TX FIFO and shifter have drained
UartTxDone ==
    /\ txBusy
    /\ txBusy' = FALSE
    /\ UNCHANGED <<cpuVars, mem, dmaVars, uartEnabled, console>>

-----------------------------------------------------------------------------
Next == Main \/ Dma \/ UartTxDone

Spec == Init /\ [][Next]_vars

\* The CPU keeps executing, the engine keeps serving what it was given, and
\* the transmitter keeps draining.
FairSpec == Spec /\ WF_vars(Main) /\ WF_vars(Dma) /\ WF_vars(UartTxDone)

-----------------------------------------------------------------------------
(* Vocabulary of the properties *)

Done(d) == Cy_DMAC_Descriptor_GetResponse(d) = "CY_DMAC_DONE"

\* Positions of main up to and including the wait loop of line 147
UpToWaitLoop ==
    {"L102", "L103", "L105", "L109", "L112", "L115", "L116", "L117", "L120", "L121",
     "L122", "L125", "L128", "L131", "L132", "L134", "L135", "L136", "L137", "L144", "L147"}

\* Positions of main before the trigger call of line 144 has been made
BeforeTrigger == UpToWaitLoop \ {"L147"}

\* What main has written when the trigger call is reached: clear-screen and banner
Banner == [k \in 1..4 |->
             Str(PutStringCalls[<<"L134", "L135", "L136", "L137">>[k]].text)]

IsPrefix(s, t) == Len(s) <= Len(t) /\ \A k \in 1..Len(s) : s[k] = t[k]

\* The engine can no longer complete PONG: the one trigger call has been
\* made, no trigger is waiting to be served and the engine is at rest.
Stalled == calls.SwTrigger = 1 /\ ~trigPending /\ ~dmaActive /\ ~Done(PONG)

\* Start-up has failed: cybsp_init, the channel initialisation or a
\* descriptor initialisation has returned an error.
InitFailed ==
    failed \cap {"cybsp_init", "Channel_Init", "Descriptor_Init_PING", "Descriptor_Init_PONG"} # {}

\* Every call made so far has returned success
NoFault == failed = {}

\* The order in which loop l is to use the array indices
ExpectedIndices(l) ==
    [k \in 1..DMAC_TRANSFER_SIZE |->
        IF DumpLoops[l].counter = "uint8_t" THEN k - 1 ELSE DMAC_TRANSFER_SIZE - k]

\* The bytes loop l has put on the console, given that it has just ended
LastBytes == SubSeq(console, Len(console) - DMAC_TRANSFER_SIZE + 1, Len(console))

-----------------------------------------------------------------------------
(* C1: main leaves the wait loop of line 147, and so starts reading the     *)
(* destination regions, only in a state where the response of the PONG      *)
(* descriptor is Done.  Stated for the executions without a failed call.    *)
C1_LeavesWaitLoopOnlyWhenPongDone ==
    [][(NoFault /\ pc = "L147" /\ pc' # "L147") => Done(PONG)]_vars

(* C2: when start-up succeeds and the engine completes both descriptors,    *)
(* main eventually prints "- DMA transfer is completed." as its last output *)
(* and then stays in the idle loop for ever, whatever the interleaving of   *)
(* engine and CPU.                                                          *)
C2_EventuallyReportsAndIdles ==
    ([]NoFault /\ <>(Done(PING) /\ Done(PONG)))
        => <>[](/\ pc = "L195"
                /\ console # <<>>
                /\ console[Len(console)] = Str("- DMA transfer is completed. \r\n"))

(* C3: whenever the PONG response is Done both destination regions equal    *)
(* their source regions, "PSoC4_HVMS-DMADC", and every byte main has read   *)
(* from a destination region for printing is the source byte at that index. *)
(* Stated for the executions without a failed call.                         *)
C3_CopyCorrectAndPrinted ==
    NoFault =>
       /\ Done(PONG) => /\ g_region1Dst = g_region1Src /\ g_region1Dst = RegionInit
                        /\ g_region2Dst = g_region2Src /\ g_region2Dst = RegionInit
       /\ \A k \in 1..DMAC_TRANSFER_SIZE :
             /\ dstdata1[k] \in {Undef, g_region1Src[k]}
             /\ dstdata2[k] \in {Undef, g_region2Src[k]}

(* C4: the chain runs PING to completion before PONG begins: the engine is  *)
(* on PONG, PONG has moved data, or PONG is Done only when PING is Done and *)
(* region 1 has been copied in full.                                        *)
C4_PingCompleteBeforePong ==
    (curDescr = PONG \/ g_region2Dst # ZeroRegion \/ Done(PONG))
        => (Done(PING) /\ g_region1Dst = g_region1Src)

C4_Witness == Done(PONG) /\ Done(PING) /\ g_region2Dst = g_region2Src

(* C5: when cybsp_init, the channel initialisation or a descriptor          *)
(* initialisation fails, main never enables or triggers the channel and     *)
(* never writes to the console.                                             *)
C5_InitFailureHaltsSilently ==
    InitFailed => (calls.Channel_Enable = 0 /\ calls.SwTrigger = 0 /\ console = <<>>)

(* C6: when PONG can never complete, main stays in the wait loop: it        *)
(* prints nothing after the banner and never reaches the idle loop.         *)
C6_StalledTransferStaysInWaitLoop ==
    Stalled => (pc = "L147" /\ console = Banner)

C8_DumpOrder ==
    \A l \in LoopLines :
        /\ IsPrefix(idxLog[l], ExpectedIndices(l))
        /\ pc = DumpLoops[l].next =>
              /\ idxLog[l] = ExpectedIndices(l)
              /\ LastBytes = [k \in 1..DMAC_TRANSFER_SIZE |->
                                Byte(locals[DumpLoops[l].array][ExpectedIndices(l)[k] + 1])]
              /\ DumpLoops[l].counter = "uint8_t" => i_u8 = DMAC_TRANSFER_SIZE
              /\ DumpLoops[l].counter = "uint32_t" => i_u32 = <<65535, 65535>>

C8_Witness ==
    /\ pc = "L190"
    /\ idxLog["L183"] = ExpectedIndices("L183")
    /\ idxLog["L183"][1] = 15 /\ idxLog["L183"][DMAC_TRANSFER_SIZE] = 0
    /\ i_u32 = <<65535, 65535>>

(* C9: the source regions hold "PSoC4_HVMS-DMADC" in every state; neither   *)
(* main nor the engine writes to them.                                      *)
C9_SourcesNeverMutated ==
    g_region1Src = RegionInit /\ g_region2Src = RegionInit

C9_Witness == pc = "L195" /\ Done(PONG) /\ g_region2Dst = RegionInit

(* C10: the channel is initialised, enabled and triggered at most once and  *)
(* exactly once by the time main is in the wait loop; when the trigger is   *)
(* issued both descriptors have been initialised and given their addresses  *)
(* and the channel and the controller have been enabled; until then both    *)
(* destination regions are all zero.                                        *)
C10_ArmingOrderSingleTrigger ==
    /\ \A c \in DOMAIN calls : calls[c] <= 1
    /\ pc \notin BeforeTrigger => \A c \in DOMAIN calls : calls[c] = 1
    /\ calls.SwTrigger = 1 =>
          /\ \A c \in DOMAIN calls : calls[c] = 1
          /\ dmacEnabled
          /\ \A d \in Descriptors : descr[d].src # "NULL" /\ descr[d].dst # "NULL"
          /\ descr[PING].src = "g_region1Src" /\ descr[PING].dst = "g_region1Dst"
          /\ descr[PONG].src = "g_region2Src" /\ descr[PONG].dst = "g_region2Dst"
    /\ calls.SwTrigger = 0 =>
          /\ g_region1Dst = ZeroRegion /\ g_region2Dst = ZeroRegion
          /\ ~trigPending /\ ~dmaActive

C10_Witness == calls.SwTrigger = 1 /\ trigPending /\ g_region1Dst = ZeroRegion

=============================================================================
